---- MODULE Spec2Model ----
(***************************************************************************)
(* The medicine-reminder subsystem of health_app.py: the reminders table   *)
(* (SQLite), the UI handlers that create and delete reminders, the         *)
(* background thread reminder_check_loop, and the wx.CallAfter hand-off    *)
(* of show_popup to the UI thread; and the appointments table with the     *)
(* handlers of the "Book Appointment" and "View Appointments" tabs.        *)
(*                                                                         *)
(* Text values (med_name, dose, remind_datetime, note) are sequences of    *)
(* ASCII codes, so that str.strip, strptime and SQLite's BINARY text       *)
(* ordering are computed on the characters.  A datetime is modelled by an  *)
(* order-preserving integer (Ord), the wall clock by such an integer.      *)
(***************************************************************************)
EXTENDS Integers, Sequences, FiniteSets, TLC

VARIABLES
    schema,      \* health_app.db: "none" (no tables), "old" (reminders
                 \* without the note column), "full"
    reminders,   \* rows of the reminders table
    seq,         \* sqlite_sequence value of reminders (AUTOINCREMENT)
    phase,       \* process: "off", "imported", "running", "failed"
    rem_list,    \* HealthApp.rem_list, column 0 (the ids displayed)
    msgBox,      \* title of the last wx.MessageBox shown
    callAfter,   \* wx.CallAfter queue: the rem of each pending show_popup
    pc,          \* position of the reminder_check_loop thread
    now,         \* its local now
    rows,        \* its local rows
    i,           \* index in rows of the loop variable r
    clock,       \* wall clock (datetime.datetime.now())
    dispatched,  \* history: wx.CallAfter(show_popup) calls per reminder id
    cycleDue,    \* history: ids stored unfired and due when the cycle started
    late,        \* history: ids of unfired reminders that became due while
                 \* the program was not running, until a cycle completes
    failed,      \* history: ids of the due rows a failed mark left unfired
                 \* (the failing one and those after it), until a cycle
                 \* completes
    appointments,  \* rows of the appointments table
    app_seq,       \* sqlite_sequence value of appointments
    book_status,   \* HealthApp.book_status: which label is shown
    apps_list      \* HealthApp.apps_list, column 0 (the ids displayed)

vars == <<schema, reminders, seq, phase, rem_list, msgBox, callAfter,
          pc, now, rows, i, clock, dispatched, cycleDue, late, failed,
          appointments, app_seq, book_status, apps_list>>

dbVars == <<schema, reminders, seq>>
uiVars == <<rem_list, msgBox>>
pollVars == <<pc, now, rows, i, cycleDue, late, failed>>
bookVars == <<appointments, app_seq, book_status, apps_list>>

----------------------------------------------------------------------------
(* Bounds *)

\* number of INSERTs into reminders in one behaviour
MaxReminders == 2
Ids == 1..MaxReminders
\* appointments booked in a run of the model
MaxAppointments == 2

----------------------------------------------------------------------------
(* Text *)

IsDigit(c) == c \in 48..57
IsSpace(c) == c \in {9, 10, 11, 12, 13, 32}

RECURSIVE LStrip(_)
LStrip(s) == IF s # <<>> /\ IsSpace(Head(s)) THEN LStrip(Tail(s)) ELSE s

RECURSIVE RStrip(_)
RStrip(s) ==
    IF s # <<>> /\ IsSpace(s[Len(s)]) THEN RStrip(SubSeq(s, 1, Len(s) - 1))
    ELSE s

\* str.strip()
Strip(s) == RStrip(LStrip(s))

\* SQLite BINARY collation on TEXT: memcmp, then the shorter one first
RECURSIVE TextLess(_, _)
TextLess(a, b) ==
    IF b = <<>> THEN FALSE
    ELSE IF a = <<>> THEN TRUE
    ELSE IF Head(a) # Head(b) THEN Head(a) < Head(b)
    ELSE TextLess(Tail(a), Tail(b))

RECURSIVE Num(_)
Num(s) == IF s = <<>> THEN 0 ELSE 10 * Num(SubSeq(s, 1, Len(s) - 1)) + (s[Len(s)] - 48)

----------------------------------------------------------------------------
(* datetime.datetime.strptime(s, "%Y-%m-%d %H:%M") *)

NoDate == [ok |-> FALSE]

\* %Y : \d\d\d\d
YearRe(f) == Len(f) = 4 /\ \A k \in 1..4 : IsDigit(f[k])
\* %m : 1[0-2]|0[1-9]|[1-9]
MonthRe(f) ==
    \/ Len(f) = 2 /\ f[1] = 49 /\ f[2] \in 48..50
    \/ Len(f) = 2 /\ f[1] = 48 /\ f[2] \in 49..57
    \/ Len(f) = 1 /\ f[1] \in 49..57
\* %d : 3[0-1]|[1-2]\d|0[1-9]|[1-9]| [1-9]
DayRe(f) ==
    \/ Len(f) = 2 /\ f[1] = 51 /\ f[2] \in 48..49
    \/ Len(f) = 2 /\ f[1] \in 49..50 /\ IsDigit(f[2])
    \/ Len(f) = 2 /\ f[1] = 48 /\ f[2] \in 49..57
    \/ Len(f) = 1 /\ f[1] \in 49..57
    \/ Len(f) = 2 /\ f[1] = 32 /\ f[2] \in 49..57
\* %H : 2[0-3]|[0-1]\d|\d
HourRe(f) ==
    \/ Len(f) = 2 /\ f[1] = 50 /\ f[2] \in 48..51
    \/ Len(f) = 2 /\ f[1] \in 48..49 /\ IsDigit(f[2])
    \/ Len(f) = 1 /\ IsDigit(f[1])
\* %M : [0-5]\d|\d
MinuteRe(f) ==
    \/ Len(f) = 2 /\ f[1] \in 48..53 /\ IsDigit(f[2])
    \/ Len(f) = 1 /\ IsDigit(f[1])

IsLeap(y) == (y % 4 = 0 /\ y % 100 # 0) \/ y % 400 = 0
DaysInMonth(y, m) ==
    IF m = 2 THEN (IF IsLeap(y) THEN 29 ELSE 28)
    ELSE IF m \in {4, 6, 9, 11} THEN 30 ELSE 31

\* the ways the format's regular expression splits s: field lengths
\* <<lm, ld, ws, lH, lM>> of %m, %d, the \s+ run, %H and %M
Splits(s) ==
    {t \in (1..2) \X (1..2) \X (1..Len(s)) \X (1..2) \X (1..2) :
        LET pm == 6
            pd == pm + t[1] + 1
            pw == pd + t[2]
            pH == pw + t[3]
            pM == pH + t[4] + 1
        IN  /\ Len(s) = pM + t[5] - 1
            /\ YearRe(SubSeq(s, 1, 4))
            /\ s[5] = 45
            /\ MonthRe(SubSeq(s, pm, pd - 2))
            /\ s[pd - 1] = 45
            /\ DayRe(SubSeq(s, pd, pw - 1))
            /\ \A k \in pw..(pH - 1) : IsSpace(s[k])
            /\ HourRe(SubSeq(s, pH, pM - 2))
            /\ s[pM - 1] = 58
            /\ MinuteRe(SubSeq(s, pM, Len(s)))}

Parse(s) ==
    IF Splits(s) = {} THEN NoDate
    ELSE LET t == CHOOSE u \in Splits(s) : TRUE
             pm == 6
             pd == pm + t[1] + 1
             pw == pd + t[2]
             pH == pw + t[3]
             pM == pH + t[4] + 1
             Y == Num(SubSeq(s, 1, 4))
             m == Num(SubSeq(s, pm, pd - 2))
             d == Num(LStrip(SubSeq(s, pd, pw - 1)))
             H == Num(SubSeq(s, pH, pM - 2))
             M == Num(SubSeq(s, pM, Len(s)))
         IN  IF Y < 1 \/ d > DaysInMonth(Y, m) THEN NoDate
             ELSE [ok |-> TRUE, Y |-> Y, m |-> m, d |-> d, H |-> H, M |-> M]

\* datetime.datetime.strptime(s, "%Y-%m-%d"): field lengths <<lm, ld>>
DateSplits(s) ==
    {t \in (1..2) \X (1..2) :
        LET pm == 6
            pd == pm + t[1] + 1
        IN  /\ Len(s) = pd + t[2] - 1
            /\ YearRe(SubSeq(s, 1, 4))
            /\ s[5] = 45
            /\ MonthRe(SubSeq(s, pm, pd - 2))
            /\ s[pd - 1] = 45
            /\ DayRe(SubSeq(s, pd, Len(s)))}

ParseDate(s) ==
    IF DateSplits(s) = {} THEN NoDate
    ELSE LET t == CHOOSE u \in DateSplits(s) : TRUE
             pd == 6 + t[1] + 1
             Y == Num(SubSeq(s, 1, 4))
             m == Num(SubSeq(s, 6, pd - 2))
             d == Num(LStrip(SubSeq(s, pd, Len(s))))
         IN  IF Y < 1 \/ d > DaysInMonth(Y, m) THEN NoDate
             ELSE [ok |-> TRUE, Y |-> Y, m |-> m, d |-> d]

\* datetime.datetime.strptime(s, "%H:%M"): field lengths <<lH, lM>>
TimeSplits(s) ==
    {t \in (1..2) \X (1..2) :
        /\ Len(s) = t[1] + 1 + t[2]
        /\ HourRe(SubSeq(s, 1, t[1]))
        /\ s[t[1] + 1] = 58
        /\ MinuteRe(SubSeq(s, t[1] + 2, Len(s)))}

ParseTime(s) ==
    IF TimeSplits(s) = {} THEN NoDate
    ELSE LET t == CHOOSE u \in TimeSplits(s) : TRUE
         IN  [ok |-> TRUE, H |-> Num(SubSeq(s, 1, t[1])),
              M |-> Num(SubSeq(s, t[1] + 2, Len(s)))]

\* date.weekday(): Monday is 0; the day count is the proleptic Gregorian
\* one (days since 1970-01-01, a Thursday)
weekday(dt) ==
    LET y == IF dt.m <= 2 THEN dt.Y - 1 ELSE dt.Y
        era == y \div 400
        yoe == y - era * 400
        mp == (dt.m + 9) % 12
        doy == (153 * mp + 2) \div 5 + dt.d - 1
        doe == yoe * 365 + yoe \div 4 - yoe \div 100 + doy
        days == era * 146097 + doe - 719468
    IN  (days + 3) % 7

\* an integer ordered as datetime objects are (year, month, day, hour, minute)
Ord(dt) == ((((dt.Y * 12 + (dt.m - 1)) * 31 + (dt.d - 1)) * 24 + dt.H) * 60) + dt.M

----------------------------------------------------------------------------
(* Text typed into the forms *)

\* " 2024-01-01 08:01 "
TxtPad0801 == <<32,50,48,50,52,45,48,49,45,48,49,32,48,56,58,48,49,32>>
\* "2024-1-1 8:0"
TxtBare0800 == <<50,48,50,52,45,49,45,49,32,56,58,48>>
\* "2024-02-30 08:00"
TxtFeb30 == <<50,48,50,52,45,48,50,45,51,48,32,48,56,58,48,48>>
\* "A", " B ", " ", "1", "n", ""
TxtA == <<65>>
TxtBsp == <<32,66,32>>
TxtSp == <<32>>
TxtDose == <<49>>
TxtNote == <<110>>
Empty == <<>>
\* "2024-01-01": the remind_datetime of a row that did not come through the
\* forms of this program (a date without a time)
TxtLegacy == <<50,48,50,52,45,48,49,45,48,49>>

\* "2024-01-01" (a Monday), "2024-1-1", "2024-02-30", "08:00", "8:00"
TxtMon == <<50,48,50,52,45,48,49,45,48,49>>
TxtMonBare == <<50,48,50,52,45,49,45,49>>
TxtDateFeb30 == <<50,48,50,52,45,48,50,45,51,48>>
Txt0800 == <<48,56,58,48,48>>
Txt800 == <<56,58,48,48>>

\* DOCTORS: id, specialty and schedule (weekdays, Monday is 0)
DOCTORS ==
    << [id |-> 1, specialty |-> "Child Specialist",  schedule |-> {0, 1, 2, 3, 4}],
       [id |-> 2, specialty |-> "General Physician", schedule |-> {0, 1, 2, 3, 4, 5}],
       [id |-> 3, specialty |-> "Dermatologist",     schedule |-> {1, 3, 5}],
       [id |-> 4, specialty |-> "Orthopedic",        schedule |-> {0, 2, 4}] >>

\* what the user has entered on the "Book Appointment" tab: patient name,
\* selection of the doctor choice, specialty choice, date, time, notes
BookForms ==
    { [name |-> TxtA,   doc_idx |-> 0, specialty_choice |-> "",
       date |-> TxtMon, time |-> Txt0800, notes |-> Empty],
      [name |-> TxtBsp, doc_idx |-> 0, specialty_choice |-> "",
       date |-> TxtMonBare, time |-> Txt800, notes |-> TxtNote],
      [name |-> TxtA,   doc_idx |-> 2, specialty_choice |-> "Child Specialist",
       date |-> TxtMon, time |-> Txt0800, notes |-> Empty],
      [name |-> TxtA,   doc_idx |-> 1, specialty_choice |-> "",
       date |-> TxtMon, time |-> Txt0800, notes |-> Empty],
      [name |-> TxtA,   doc_idx |-> 2, specialty_choice |-> "",
       date |-> TxtMon, time |-> Txt0800, notes |-> Empty],
      [name |-> TxtSp,  doc_idx |-> 0, specialty_choice |-> "",
       date |-> TxtMon, time |-> Txt0800, notes |-> Empty],
      [name |-> TxtA,   doc_idx |-> 0, specialty_choice |-> "",
       date |-> TxtDateFeb30, time |-> Txt0800, notes |-> Empty],
      [name |-> TxtA,   doc_idx |-> 0, specialty_choice |-> "",
       date |-> TxtMon, time |-> TxtSp, notes |-> Empty] }

\* what the user has typed into the name, dose, date-time and note controls
Forms ==
    { [name |-> TxtA,   dose |-> TxtDose, dt |-> TxtPad0801,  note |-> TxtNote],
      [name |-> TxtBsp, dose |-> Empty,   dt |-> TxtBare0800, note |-> Empty],
      [name |-> TxtSp,  dose |-> TxtDose, dt |-> TxtPad0801,  note |-> Empty],
      [name |-> TxtA,   dose |-> Empty,   dt |-> Empty,       note |-> Empty],
      [name |-> TxtA,   dose |-> Empty,   dt |-> TxtFeb30,    note |-> Empty] }

\* what the user has typed into the quick-add controls (there is no note)
QuickForms ==
    { [name |-> TxtBsp, dose |-> Empty,   dt |-> TxtBare0800],
      [name |-> Empty,  dose |-> TxtDose, dt |-> TxtBare0800],
      [name |-> TxtA,   dose |-> Empty,   dt |-> TxtSp],
      [name |-> TxtA,   dose |-> Empty,   dt |-> TxtFeb30] }

\* strptime, its results on the date-time texts of Forms computed once
ParsedForms ==
    [s \in {Strip(f.dt) : f \in Forms} \cup {Strip(f.dt) : f \in QuickForms}
              \cup {TxtLegacy}
        |-> Parse(s)]
strptime(s) == IF s \in DOMAIN ParsedForms THEN ParsedForms[s] ELSE Parse(s)

\* the date-times the forms name, and the latest of them
FormTimes ==
    {Ord(ParsedForms[s]) : s \in {t \in DOMAIN ParsedForms : ParsedForms[t] # NoDate}}
Horizon == CHOOSE t \in FormTimes : \A u \in FormTimes : u <= t

\* the wall clock when the model starts: 2024-01-01 08:00
T0 == Ord([Y |-> 2024, m |-> 1, d |-> 1, H |-> 8, M |-> 0])

----------------------------------------------------------------------------
(* DB helpers *)

\* an init_db that re-arms every stored reminder
init_db_rearm(sch, tbl) ==
    IF sch = "none" THEN {} ELSE {[r EXCEPT !.notified = 0] : r \in tbl}

\* an id column without AUTOINCREMENT: one more than the largest id in the
\* table
rowid_after_max(tbl, s) ==
    IF tbl = {} THEN 1
    ELSE 1 + (CHOOSE m \in {r.id : r \in tbl} : \A r \in tbl : r.id <= m)

\* id INTEGER PRIMARY KEY AUTOINCREMENT: one more than the largest id the
\* table has ever held (sqlite_sequence), whatever rows are left
autoincrement(tbl, s) == s + 1

\* an init_db that drops the reminders nobody was notified of
init_db_expire(sch, tbl) ==
    IF sch = "none" THEN {} ELSE {r \in tbl : r.notified = 1}

\* CREATE TABLE IF NOT EXISTS reminders: the rows after init_db
init_db(sch, tbl) == IF sch = "none" THEN {} ELSE tbl

\* an INSERT that leaves the note column out
add_reminder_without_note(tbl, id, med_name, dose, remind_dt_str, note) ==
    tbl \cup { [id |-> id, med_name |-> med_name, dose |-> dose,
                remind_datetime |-> remind_dt_str, notified |-> 0,
                note |-> <<>>] }

\* INSERT INTO reminders (...) VALUES (?, ?, ?, 0, ?) with AUTOINCREMENT id
add_reminder_to_db(tbl, id, med_name, dose, remind_dt_str, note) ==
    tbl \cup { [id |-> id, med_name |-> med_name, dose |-> dose,
                remind_datetime |-> remind_dt_str, notified |-> 0,
                note |-> note] }

\* ORDER BY remind_datetime (rows of equal text in rowid order)
RowBefore(r, q) ==
    \/ TextLess(r.remind_datetime, q.remind_datetime)
    \/ r.remind_datetime = q.remind_datetime /\ r.id <= q.id

RECURSIVE OrderBy(_)
OrderBy(S) ==
    IF S = {} THEN <<>>
    ELSE LET first == CHOOSE r \in S : \A q \in S : RowBefore(r, q)
         IN  <<first>> \o OrderBy(S \ {first})

\* the SELECT without its WHERE notified=0
get_reminders_unfiltered(tbl, include_notified) == OrderBy(tbl)

get_reminders_from_db(tbl, include_notified) ==
    IF include_notified THEN OrderBy(tbl)
    ELSE OrderBy({r \in tbl : r.notified = 0})

\* a DELETE without its WHERE
delete_all_reminders(tbl, rem_id) == {}

\* DELETE FROM reminders WHERE id = ?
delete_reminder_from_db(tbl, rem_id) == {r \in tbl : r.id # rem_id}

\* an UPDATE whose WHERE matches no row
mark_reminder_nothing(tbl, rem_id) == tbl

\* UPDATE reminders SET notified = 1 WHERE id = ?
mark_reminder_notified(tbl, rem_id) ==
    {IF r.id = rem_id THEN [r EXCEPT !.notified = 1] ELSE r : r \in tbl}

\* refresh_reminders_list: the ids shown in rem_list
refresh_reminders_list(tbl) ==
    LET all == get_reminders_from_db(tbl, TRUE)
    IN  [k \in 1..Len(all) |-> all[k].id]

\* INSERT INTO appointments (...): the row with the id SQLite assigns
add_appointment(tbl, id, patient_name, doctor_id, specialty, date_str, time_str, notes) ==
    tbl \cup {[id |-> id, patient_name |-> patient_name, doctor_id |-> doctor_id,
               specialty |-> specialty, date |-> date_str, time |-> time_str,
               notes |-> notes]}

\* ORDER BY date, time (rows of equal text in rowid order)
AppBefore(a, b) ==
    \/ TextLess(a.date, b.date)
    \/ a.date = b.date /\ TextLess(a.time, b.time)
    \/ a.date = b.date /\ a.time = b.time /\ a.id <= b.id

RECURSIVE get_appointments(_)
get_appointments(tbl) ==
    IF tbl = {} THEN <<>>
    ELSE LET first == CHOOSE a \in tbl : \A b \in tbl : AppBefore(a, b)
         IN  <<first>> \o get_appointments(tbl \ {first})

\* DELETE FROM appointments WHERE id = ?
delete_appointment(tbl, app_id) == {a \in tbl : a.id # app_id}

is_doctor_available_on(doctor, date_obj) == weekday(date_obj) \in doctor.schedule

\* refresh_appointments_list: the ids shown in apps_list
refresh_appointments_list(tbl) ==
    LET apps == get_appointments(tbl)
    IN  [k \in 1..Len(apps) |-> apps[k].id]

----------------------------------------------------------------------------
(* The process *)

Init ==
    /\ schema \in {"none", "old", "full"}
    /\ reminders = {}
    /\ seq = 0
    /\ phase = "off"
    /\ rem_list = <<>>
    /\ msgBox = ""
    /\ callAfter = <<>>
    /\ pc = "off"
    /\ now = 0
    /\ rows = <<>>
    /\ i = 0
    /\ clock = T0
    /\ dispatched = [id \in Ids |-> 0]
    /\ cycleDue = {}
    /\ late = {}
    /\ failed = {}
    /\ appointments = {}
    /\ app_seq = 0
    /\ book_status = ""
    /\ apps_list = <<>>

\* the unfired stored reminders whose date-time is t
DueAt(tbl, t) ==
    {r.id : r \in {q \in tbl : /\ q.notified = 0
                               /\ strptime(q.remind_datetime) # NoDate
                               /\ Ord(strptime(q.remind_datetime)) = t}}

\* the wall clock advances by a minute (up to the latest date-time the forms
\* name: from then on every stored reminder is due and stays so)
ClockTick ==
    /\ clock < Horizon
    /\ clock' = clock + 1
    /\ UNCHANGED <<bookVars, dbVars, phase, uiVars, callAfter, pc, now, rows, i, cycleDue,
                   failed, dispatched>>

Tick ==
    /\ ClockTick
    /\ late' = late

\* the same step with the history kept: the unfired reminders that become
\* due while the program is not running
TickRecorded ==
    /\ ClockTick
    /\ late' = IF phase = "running" THEN late
               ELSE late \cup DueAt(reminders, clock')

\* python health_app.py, the module-level statements: PRAGMA table_info and
\* ALTER TABLE reminders ADD COLUMN note, which raises "no such table" on a
\* database without tables and ends the process
Import ==
    /\ phase \in {"off", "failed"}
    /\ IF schema = "none"
       THEN /\ phase' = "failed"
            /\ UNCHANGED schema
       ELSE /\ phase' = "imported"
            /\ schema' = "full"
    /\ UNCHANGED <<bookVars, reminders, seq, uiVars, callAfter, pollVars, clock, dispatched>>

\* __main__: init_db(), HealthApp() (setup_reminder_tab refreshes rem_list),
\* the reminder thread is started, app.MainLoop()
Main ==
    /\ phase = "imported"
    /\ reminders' = init_db(schema, reminders)
    /\ rem_list' = refresh_reminders_list(reminders')
    /\ pc' = "top"
    /\ phase' = "running"
    /\ apps_list' = refresh_appointments_list(appointments)
    /\ UNCHANGED <<appointments, app_seq, book_status, schema, seq, msgBox,
                   callAfter, now, rows, i, cycleDue, late, failed, clock,
                   dispatched>>

\* the process ends (window closed, crash, kill): the daemon thread, the
\* pending CallAfter events and the window are gone, the database file stays
Exit ==
    /\ phase \in {"imported", "running"}
    /\ phase' = "off"
    /\ pc' = "off"
    /\ now' = 0
    /\ rows' = <<>>
    /\ i' = 0
    /\ cycleDue' = {}
    /\ late' = {id \in late : \E r \in reminders : r.id = id /\ r.notified = 0}
    /\ failed' = {}
    /\ callAfter' = <<>>
    /\ rem_list' = <<>>
    /\ msgBox' = ""
    /\ book_status' = ""
    /\ apps_list' = <<>>
    /\ UNCHANGED <<appointments, app_seq, dbVars, clock, dispatched>>

----------------------------------------------------------------------------
(* UI thread: the event handlers *)

\* the check of the name left out
MissingDateOnly(name, dt_str) == dt_str = <<>>

\* "if not name or not dt_str"
MissingField(name, dt_str) == name = <<>> \/ dt_str = <<>>

\* try: strptime(dt_str, "%Y-%m-%d %H:%M") except: reject
BadDateTime(dt_str) == strptime(dt_str) = NoDate

on_add_reminder(f) ==
    LET name == Strip(f.name)
        dose == Strip(f.dose)
        dt_str == Strip(f.dt)
        note == Strip(f.note)
    IN  /\ phase = "running"
        /\ UNCHANGED <<bookVars, schema, phase, callAfter, pollVars, clock, dispatched>>
        /\ IF MissingField(name, dt_str) \/ BadDateTime(dt_str)
           THEN /\ msgBox' = "Error"
                /\ UNCHANGED <<reminders, seq, rem_list>>
           ELSE /\ seq < MaxReminders
                /\ seq' = autoincrement(reminders, seq)
                /\ reminders' = add_reminder_to_db(reminders, seq', name,
                                                   dose, dt_str, note)
                /\ msgBox' = "OK"
                /\ rem_list' = refresh_reminders_list(reminders')

on_quick_add_reminder(f) ==
    LET med == Strip(f.name)
        dose == Strip(f.dose)
        dt == Strip(f.dt)
        note == <<>>
    IN  /\ phase = "running"
        /\ UNCHANGED <<bookVars, schema, phase, callAfter, pollVars, clock, dispatched>>
        /\ IF MissingField(med, dt) \/ BadDateTime(dt)
           THEN /\ msgBox' = "Error"
                /\ UNCHANGED <<reminders, seq, rem_list>>
           ELSE /\ seq < MaxReminders
                /\ seq' = autoincrement(reminders, seq)
                /\ reminders' = add_reminder_to_db(reminders, seq', med,
                                                   dose, dt, note)
                /\ msgBox' = "OK"
                /\ rem_list' = refresh_reminders_list(reminders')

\* idx is the selected line of rem_list (0: none), yes the answer to the
\* confirmation dialog
on_delete_reminder(idx, yes) ==
    /\ phase = "running"
    /\ UNCHANGED <<bookVars, schema, seq, phase, callAfter, pollVars, clock, dispatched>>
    /\ IF idx = 0
       THEN /\ msgBox' = "Info"
            /\ UNCHANGED <<reminders, rem_list>>
       ELSE /\ UNCHANGED msgBox
            /\ IF yes
               THEN /\ reminders' = delete_reminder_from_db(reminders, rem_list[idx])
                    /\ rem_list' = refresh_reminders_list(reminders')
               ELSE UNCHANGED <<reminders, rem_list>>

\* the "Refresh List" button
on_refresh ==
    /\ phase = "running"
    /\ rem_list' = refresh_reminders_list(reminders)
    /\ UNCHANGED <<bookVars, dbVars, phase, msgBox, callAfter, pollVars, clock, dispatched>>

\* the UI thread runs the oldest pending show_popup
show_popup ==
    /\ phase = "running"
    /\ callAfter # <<>>
    /\ msgBox' = "Medicine Reminder"
    /\ rem_list' = refresh_reminders_list(reminders)
    /\ callAfter' = Tail(callAfter)
    /\ UNCHANGED <<bookVars, dbVars, phase, pollVars, clock, dispatched>>

\* "for a in apps: if a[doctor_id] == doctor[id] and a[date] == date_s and
\* a[time] == time_s": the columns are compared as the texts they are
SlotTaken(apps, doctor, date_s, time_s) ==
    \E k \in 1..Len(apps) :
        /\ apps[k].doctor_id = doctor.id
        /\ apps[k].date = date_s
        /\ apps[k].time = time_s

\* the doctor booked: the selected one, or the first of the chosen specialty
BookedDoctor(doc_idx, specialty_choice) ==
    LET alts == {k \in 1..Len(DOCTORS) : DOCTORS[k].specialty = specialty_choice}
    IN  IF specialty_choice # "" /\ alts # {}
        THEN DOCTORS[CHOOSE k \in alts : \A j \in alts : k <= j]
        ELSE DOCTORS[doc_idx + 1]

on_book_appointment(f) ==
    LET name == Strip(f.name)
        date_s == Strip(f.date)
        time_s == Strip(f.time)
        notes == Strip(f.notes)
        doctor == BookedDoctor(f.doc_idx, f.specialty_choice)
    IN  /\ phase = "running"
        /\ UNCHANGED <<dbVars, phase, uiVars, callAfter, pollVars, clock, dispatched>>
        /\ IF name = <<>>
           THEN /\ book_status' = "Patient name is required."
                /\ UNCHANGED <<appointments, app_seq, apps_list>>
           ELSE IF ParseDate(date_s) = NoDate \/ ParseTime(time_s) = NoDate
           THEN /\ book_status' = "Invalid date or time format."
                /\ UNCHANGED <<appointments, app_seq, apps_list>>
           ELSE IF ~is_doctor_available_on(doctor, ParseDate(date_s))
           THEN /\ book_status' = "not scheduled on that date"
                /\ UNCHANGED <<appointments, app_seq, apps_list>>
           ELSE IF SlotTaken(get_appointments(appointments), doctor, date_s, time_s)
           THEN /\ book_status' = "That time is already booked with the selected doctor."
                /\ UNCHANGED <<appointments, app_seq, apps_list>>
           ELSE /\ app_seq < MaxAppointments
                /\ app_seq' = autoincrement(appointments, app_seq)
                /\ appointments' = add_appointment(appointments, app_seq', name,
                                                   doctor.id, doctor.specialty,
                                                   date_s, time_s, notes)
                /\ book_status' = "Appointment booked!"
                /\ apps_list' = refresh_appointments_list(appointments')

\* "Delete Selected" with the line idx of apps_list selected (0: none) and
\* the answer to the confirmation dialog
on_delete_selected(idx, yes) ==
    /\ phase = "running"
    /\ UNCHANGED <<dbVars, phase, rem_list, callAfter, pollVars, clock, dispatched,
                   app_seq, book_status>>
    /\ IF idx = 0
       THEN /\ msgBox' = "Info"
            /\ UNCHANGED <<appointments, apps_list>>
       ELSE /\ UNCHANGED msgBox
            /\ IF yes
               THEN /\ appointments' = delete_appointment(appointments, apps_list[idx])
                    /\ apps_list' = refresh_appointments_list(appointments')
               ELSE UNCHANGED <<appointments, apps_list>>

\* the "Refresh" button of the "View Appointments" tab
on_refresh_appointments ==
    /\ phase = "running"
    /\ apps_list' = refresh_appointments_list(appointments)
    /\ UNCHANGED <<dbVars, phase, uiVars, callAfter, pollVars, clock, dispatched,
                   appointments, app_seq, book_status>>

----------------------------------------------------------------------------
(* Background thread: reminder_check_loop *)

\* the comparison turned around
IsDueReversed(n, rem_dt) == n <= Ord(rem_dt)

\* the comparison made strict
IsDueStrict(n, rem_dt) == n > Ord(rem_dt)

\* "if now >= rem_dt"
IsDue(n, rem_dt) == n >= Ord(rem_dt)

\* the reminders stored unfired and due at time n
DueIds(tbl, n) ==
    {r.id : r \in {q \in tbl : /\ q.notified = 0
                               /\ strptime(q.remind_datetime) # NoDate
                               /\ Ord(strptime(q.remind_datetime)) <= n}}

\* top of the while loop: now = datetime.datetime.now()
PollNow ==
    /\ phase = "running"
    /\ pc \in {"top", "sleep", "except"}
    /\ now' = clock
    /\ cycleDue' = DueIds(reminders, clock)
    /\ pc' = "read"
    /\ UNCHANGED <<bookVars, dbVars, phase, uiVars, callAfter, rows, i, late, failed, clock,
                   dispatched>>

\* rows = get_reminders_from_db(include_notified=False)
PollRead ==
    /\ pc = "read"
    /\ rows' = get_reminders_from_db(reminders, FALSE)
    /\ i' = 1
    /\ pc' = "loop"
    /\ UNCHANGED <<bookVars, dbVars, phase, uiVars, callAfter, now, cycleDue, late, failed,
                   clock, dispatched>>

\* an exception that is not caught: the thread ends
AbandonThread ==
    /\ pc' = "off"
    /\ now' = 0
    /\ rows' = <<>>
    /\ i' = 0
    /\ cycleDue' = {}
    /\ late' = late

\* the cycle is abandoned: "except Exception: time.sleep(...)"
Abandon ==
    /\ pc' = "except"
    /\ now' = 0
    /\ rows' = <<>>
    /\ i' = 0
    /\ cycleDue' = {}
    /\ late' = late

\* the SELECT raises (sqlite3.OperationalError)
PollReadError ==
    /\ pc = "read"
    /\ Abandon
    /\ UNCHANGED <<bookVars, dbVars, phase, uiVars, callAfter, failed, clock, dispatched>>

\* a row that is not parsed is taken as due ("except: pass")
RowDueUnparsed(r, n) ==
    IF strptime(r.remind_datetime) = NoDate THEN TRUE
    ELSE IsDue(n, strptime(r.remind_datetime))

\* the row r is due: strptime succeeded and now >= rem_dt
RowDue(r, n) ==
    /\ strptime(r.remind_datetime) # NoDate
    /\ IsDue(n, strptime(r.remind_datetime))

\* r is not parsed ("continue") or is not due yet
PollSkip ==
    /\ pc = "loop"
    /\ i <= Len(rows)
    /\ ~RowDue(rows[i], now)
    /\ i' = i + 1
    /\ UNCHANGED <<bookVars, dbVars, phase, uiVars, callAfter, pc, now, rows, cycleDue,
                   late, failed, clock, dispatched>>

\* mark_reminder_notified(r["id"])
PollMark ==
    /\ pc = "loop"
    /\ i <= Len(rows)
    /\ RowDue(rows[i], now)
    /\ reminders' = mark_reminder_notified(reminders, rows[i].id)
    /\ pc' = "notify"
    /\ UNCHANGED <<bookVars, schema, seq, phase, uiVars, callAfter, now, rows, i, cycleDue,
                   late, failed, clock, dispatched>>

\* the due rows of the cycle from the current one on
DueFromHere == {rows[k].id : k \in {j \in i..Len(rows) : RowDue(rows[j], now)}}

\* an UPDATE that raises after its row was written
PollMarkErrorAfterUpdate ==
    /\ pc = "loop"
    /\ i <= Len(rows)
    /\ RowDue(rows[i], now)
    /\ Abandon
    /\ failed' = failed \cup DueFromHere
    /\ reminders' = mark_reminder_notified(reminders, rows[i].id)
    /\ UNCHANGED <<bookVars, schema, seq, phase, uiVars, callAfter, clock, dispatched>>

\* the UPDATE raises: the rest of the cycle is skipped
MarkRaises ==
    /\ pc = "loop"
    /\ i <= Len(rows)
    /\ RowDue(rows[i], now)
    /\ Abandon
    /\ UNCHANGED <<bookVars, dbVars, phase, uiVars, callAfter, clock, dispatched>>

PollMarkError ==
    /\ MarkRaises
    /\ failed' = failed

\* the same step with the history kept: the due rows left unfired
PollMarkErrorRecorded ==
    /\ MarkRaises
    /\ failed' = failed \cup DueFromHere

\* the thread calls show_popup() itself
PollNotifyInThread ==
    /\ pc = "notify"
    /\ msgBox' = "Medicine Reminder"
    /\ rem_list' = refresh_reminders_list(reminders)
    /\ dispatched' = [dispatched EXCEPT ![rows[i].id] = @ + 1]
    /\ i' = i + 1
    /\ pc' = "loop"
    /\ UNCHANGED <<bookVars, dbVars, phase, callAfter, now, rows, cycleDue, late, failed, clock>>

\* wx.CallAfter(show_popup) with rem = r
PollNotify ==
    /\ pc = "notify"
    /\ callAfter' = Append(callAfter, rows[i])
    /\ dispatched' = [dispatched EXCEPT ![rows[i].id] = @ + 1]
    /\ i' = i + 1
    /\ pc' = "loop"
    /\ UNCHANGED <<bookVars, dbVars, phase, uiVars, now, rows, cycleDue, late, failed, clock>>

\* the for loop is over: time.sleep(poll_interval_seconds)
PollSleep ==
    /\ pc = "loop"
    /\ i > Len(rows)
    /\ pc' = "sleep"
    /\ now' = 0
    /\ rows' = <<>>
    /\ i' = 0
    /\ cycleDue' = {}
    /\ late' = {}
    /\ failed' = {}
    /\ UNCHANGED <<bookVars, dbVars, phase, uiVars, callAfter, clock, dispatched>>

----------------------------------------------------------------------------

\* the steps that record nothing in late and failed
Steps ==
    \/ Import
    \/ Main
    \/ Exit
    \/ \E f \in Forms : on_add_reminder(f)
    \/ \E f \in QuickForms : on_quick_add_reminder(f)
    \/ \E idx \in 0..Len(rem_list), yes \in BOOLEAN : on_delete_reminder(idx, yes)
    \/ on_refresh
    \/ show_popup
    \/ PollNow
    \/ PollRead
    \/ PollReadError
    \/ PollSkip
    \/ PollMark
    \/ PollNotify
    \/ PollSleep

Next ==
    \/ Tick
    \/ PollMarkError
    \/ Steps

Spec == Init /\ [][Next]_vars

\* the program with the history late kept
NextLate ==
    \/ TickRecorded
    \/ PollMarkError
    \/ Steps

SpecLate == Init /\ [][NextLate]_vars

\* the program with the history failed kept
NextFailed ==
    \/ Tick
    \/ PollMarkErrorRecorded
    \/ Steps

SpecFailed == Init /\ [][NextFailed]_vars

\* health_app.db holds a pending row whose remind_datetime strptime rejects
\* (written by another program or an earlier version); the program is off
InitLegacy ==
    /\ schema \in {"old", "full"}
    /\ reminders = {[id |-> 1, med_name |-> TxtA, dose |-> Empty,
                     remind_datetime |-> TxtLegacy, notified |-> 0,
                     note |-> Empty]}
    /\ seq = 1
    /\ phase = "off"
    /\ rem_list = <<>>
    /\ msgBox = ""
    /\ callAfter = <<>>
    /\ pc = "off"
    /\ now = 0
    /\ rows = <<>>
    /\ i = 0
    /\ clock = T0
    /\ dispatched = [id \in Ids |-> 0]
    /\ cycleDue = {}
    /\ late = {}
    /\ failed = {}
    /\ appointments = {}
    /\ app_seq = 0
    /\ book_status = ""
    /\ apps_list = <<>>

SpecLegacy == InitLegacy /\ [][Next]_vars

\* the program is running on a database with both tables, no rows yet; the
\* user works on the "Book Appointment" and "View Appointments" tabs
InitBook ==
    /\ schema = "full"
    /\ reminders = {}
    /\ seq = 0
    /\ phase = "running"
    /\ rem_list = <<>>
    /\ msgBox = ""
    /\ callAfter = <<>>
    /\ pc = "top"
    /\ now = 0
    /\ rows = <<>>
    /\ i = 0
    /\ clock = T0
    /\ dispatched = [id \in Ids |-> 0]
    /\ cycleDue = {}
    /\ late = {}
    /\ failed = {}
    /\ appointments = {}
    /\ app_seq = 0
    /\ book_status = ""
    /\ apps_list = <<>>

NextBook ==
    \/ \E f \in BookForms : on_book_appointment(f)
    \/ \E idx \in 0..Len(apps_list), yes \in BOOLEAN : on_delete_selected(idx, yes)
    \/ on_refresh_appointments

SpecBook == InitBook /\ [][NextBook]_vars

\* wx.CallAfter raises (no wx.App any more, the event cannot be posted): the
\* row is marked, no show_popup is queued, the rest of the cycle is skipped
PollNotifyError ==
    /\ pc = "notify"
    /\ Abandon
    /\ UNCHANGED <<bookVars, dbVars, phase, uiVars, callAfter, failed, clock, dispatched>>

\* the program with every step of a cycle able to raise
NextRaising ==
    \/ Next
    \/ PollNotifyError

\* time.sleep returns and the thread is scheduled: a thread that is at the
\* top of its loop, or sleeping, goes on to the next cycle
SpecLive == Init /\ [][NextRaising]_vars /\ WF_vars(PollNow)

----------------------------------------------------------------------------
(* Properties *)

StoredIds == {r.id : r \in reminders}
Pending(id) == \E r \in reminders : r.id = id /\ r.notified = 0
Fired(id) == \E r \in reminders : r.id = id /\ r.notified = 1

\* C1: at-most-once delivery. Over every interleaving of creates, deletes,
\* poll cycles, storage errors in a cycle and process exit and restart, no
\* reminder id has more than one notification dispatched (wx.CallAfter of
\* show_popup) for it.
C1_AtMostOnce == \A id \in Ids : dispatched[id] <= 1

\* a reminder notified once, its popup shown or lost, and the thread in the
\* loop of a later cycle
C1_Witness ==
    \E id \in Ids :
        /\ dispatched[id] = 1
        /\ Fired(id)
        /\ callAfter = <<>>
        /\ pc = "loop"
        /\ \A k \in 1..Len(rows) : rows[k].id # id

\* C2 as stated: when a poll cycle has run through its loop, every reminder
\* that was stored unfired with fireAt <= now when the cycle started is stored
\* with fired = true and has exactly one notification dispatched.
C2_Original ==
    [][(pc = "loop" /\ pc' = "sleep") =>
        \A id \in cycleDue :
            /\ \E r \in reminders' : r.id = id /\ r.notified = 1
            /\ dispatched'[id] = 1]_vars

\* C2 as amended: when a poll cycle has run through its loop without a
\* storage error, every reminder that was stored unfired with fireAt <= now
\* when the cycle started and is still stored when the cycle ends has
\* fired = true and exactly one notification dispatched.
C2_Completeness ==
    [][(pc = "loop" /\ pc' = "sleep") =>
        \A id \in cycleDue :
            \A r \in reminders' :
                r.id = id => r.notified = 1 /\ dispatched'[id] = 1]_vars

\* a completed cycle that has fired a reminder
C2_Witness ==
    /\ pc = "sleep"
    /\ \E id \in Ids : Fired(id) /\ dispatched[id] = 1

\* C3: no early firing. A step that marks a reminder fired or dispatches its
\* notification is a step of a cycle whose now is at or after the reminder's
\* fireAt, and now is never later than the wall clock; so a stored fired
\* reminder has fireAt <= the wall clock.
C3_NoEarlyFiring ==
    /\ [](\A r \in reminders :
            r.notified = 1 => Ord(strptime(r.remind_datetime)) <= clock)
    /\ [][/\ \A r \in reminders :
                (r.notified = 0 /\ [r EXCEPT !.notified = 1] \in reminders')
                    => /\ strptime(r.remind_datetime) # NoDate
                       /\ Ord(strptime(r.remind_datetime)) <= now
                       /\ now <= clock
          /\ \A id \in Ids :
                dispatched'[id] # dispatched[id]
                    => /\ rows[i].id = id
                       /\ Ord(strptime(rows[i].remind_datetime)) <= now]_vars

\* a cycle has passed over a reminder that is not due and left it unfired
C3_Witness ==
    /\ pc = "loop"
    /\ i > 1
    /\ \E r \in reminders :
        /\ r = rows[i - 1]
        /\ r.notified = 0
        /\ Ord(strptime(r.remind_datetime)) > now

\* C4: mark before notify. Whenever a notification has been dispatched for a
\* reminder, and whenever the thread is about to dispatch one, the store holds
\* no unfired record of that id: mark_reminder_notified has committed first.
C4_MarkBeforeNotify ==
    /\ \A id \in Ids : dispatched[id] >= 1 => ~Pending(id)
    /\ pc = "notify" => ~Pending(rows[i].id)

\* the process ended between the mark and the notification: the reminder is
\* fired and no notification was or will be dispatched for it
C4_Witness ==
    \E id \in Ids :
        /\ Fired(id)
        /\ dispatched[id] = 0
        /\ pc # "notify"

\* C5: the fired flag is monotonic. No step turns a stored reminder's
\* notified from 1 back to 0 while the record exists.
C5_FiredMonotonic ==
    [][\A r \in reminders :
        r.notified = 1 =>
            \A q \in reminders' : q.id = r.id => q.notified = 1]_vars

\* a fired reminder in the store of a process started after it fired, with
\* another reminder created since
C5_Witness ==
    /\ phase = "running"
    /\ msgBox = "OK"
    /\ \E id \in Ids : Fired(id) /\ dispatched[id] = 0 /\ pc # "notify"
    /\ Cardinality(reminders) = 2

\* the values create is called with are not valid: the name or the date-time
\* is empty, or the date-time is no "%Y-%m-%d %H:%M" timestamp
Invalid(name, dt) == name = <<>> \/ dt = <<>> \/ strptime(dt) = NoDate

\* the forms create has to reject, and those it has to accept
InvalidForms == {f \in Forms : Invalid(Strip(f.name), Strip(f.dt))}
InvalidQuickForms == {f \in QuickForms : Invalid(Strip(f.name), Strip(f.dt))}
ValidForms == Forms \ InvalidForms
ValidQuickForms == QuickForms \ InvalidQuickForms

C7_NotFoundSignalled ==
    [][/\ (/\ pc = "loop"
           /\ i <= Len(rows)
           /\ RowDue(rows[i], now)
           /\ rows[i].id \notin StoredIds
           /\ pc' \notin {"loop", "off"})
            => pc' = "except" /\ reminders' = reminders
       /\ \A idx \in 1..Len(rem_list) :
            (rem_list[idx] \notin StoredIds /\ on_delete_reminder(idx, TRUE))
                => msgBox' = "Error" /\ reminders' = reminders]_vars

\* C8: create then listAll. After a form is accepted, get_reminders_from_db()
\* returns a row with the four values the handler passed to create and
\* notified = 0, under an id that was not stored before, and every row stored
\* before is still returned unchanged.
Created(tbl, old, name, dose, dt, note) ==
    LET all == get_reminders_from_db(tbl, TRUE)
    IN  /\ \E k \in 1..Len(all) :
            /\ all[k].med_name = name
            /\ all[k].dose = dose
            /\ all[k].remind_datetime = dt
            /\ all[k].note = note
            /\ all[k].notified = 0
            /\ \A r \in old : r.id # all[k].id
        /\ \A r \in old : \E k \in 1..Len(all) : all[k] = r
        /\ Len(all) = Cardinality(old) + 1

C8_CreateThenList ==
    [][/\ \A f \in ValidForms :
            on_add_reminder(f)
                => Created(reminders', reminders, Strip(f.name), Strip(f.dose),
                           Strip(f.dt), Strip(f.note))
       /\ \A f \in ValidQuickForms :
            on_quick_add_reminder(f)
                => Created(reminders', reminders, Strip(f.name), Strip(f.dose),
                           Strip(f.dt), <<>>)]_vars

\* a reminder with a note has been created beside an older one
C8_Witness ==
    /\ msgBox = "OK"
    /\ \E r \in reminders : r.id = 2 /\ r.note # <<>>
    /\ \E r \in reminders : r.id = 1

\* C9: delete. Confirming the deletion of the selected reminder removes its
\* row from listAll and from listPending and leaves every other row as it was.
InList(rs, id) == \E k \in 1..Len(rs) : rs[k].id = id

C9_DeleteFrame ==
    [][\A idx \in 1..Len(rem_list) :
        on_delete_reminder(idx, TRUE) =>
            /\ ~InList(get_reminders_from_db(reminders', TRUE), rem_list[idx])
            /\ ~InList(get_reminders_from_db(reminders', FALSE), rem_list[idx])
            /\ reminders' = {r \in reminders : r.id # rem_list[idx]}
            /\ \A r \in reminders : r.id # rem_list[idx] =>
                   \E k \in 1..Len(get_reminders_from_db(reminders', TRUE)) :
                       get_reminders_from_db(reminders', TRUE)[k] = r]_vars

\* one of two created reminders has been deleted, the other is still stored
C9_Witness ==
    /\ phase = "running"
    /\ seq = 2
    /\ Cardinality(reminders) = 1

\* C10 as stated: listPending returns exactly the stored reminders with
\* fired = false, each once, in ascending order of their fireAt timestamps.
C10_PendingSortedByTime ==
    LET p == get_reminders_from_db(reminders, FALSE)
    IN  /\ {p[k] : k \in 1..Len(p)} = {r \in reminders : r.notified = 0}
        /\ Len(p) = Cardinality({r \in reminders : r.notified = 0})
        /\ \A k \in 1..(Len(p) - 1) :
              Ord(strptime(p[k].remind_datetime)) <= Ord(strptime(p[k + 1].remind_datetime))

\* the fireAt of a stored row as a point in time
FireAt(r) == Ord(strptime(r.remind_datetime))

\* C11 as stated: within one cycle the due reminders are fired in ascending
\* fireAt order: the row the thread has just marked is not earlier than any
\* due row it has already fired in this cycle (the rows come in the order of
\* the stored text, dueness is decided on the parsed timestamps).
C11_FiredInTimeOrder ==
    pc = "notify" =>
        \A k \in 1..(i - 1) :
            RowDue(rows[k], now) => FireAt(rows[k]) <= FireAt(rows[i])

\* C16 as stated: a notification is dispatched only for a reminder that is
\* stored with notified = 1 at the moment of the dispatch; none for a
\* reminder deleted between the thread's SELECT and its mark.
C16_NotifyOnlyStored ==
    [][\A id \in Ids : dispatched'[id] # dispatched[id] => Fired(id)]_vars

\* C17 as stated: on a database without tables the start creates the
\* reminders table before any statement inspects or alters it, so the start
\* never fails, and the running program has the table with its note column.
C17_FreshStart ==
    /\ phase # "failed"
    /\ phase = "running" => schema = "full"

\* the step that ends a cycle which ran through its loop
CycleCompletes == pc = "loop" /\ pc' = "sleep"

PollerStep ==
    /\ phase = "running"
    /\ phase' = "running"
    /\ <<pc, now, rows, i>>' # <<pc, now, rows, i>>

\* C14: a step of the reminder thread leaves the reminder list and the
\* message box as they are; when it fires a reminder it appends exactly one
\* show_popup event, carrying that row, to the UI thread's queue, and
\* otherwise leaves the queue alone; a step that shows a box, refreshes the
\* list or takes an event from the queue is no step of the reminder thread.
C14_PollerLeavesUI ==
    [][/\ PollerStep =>
             /\ rem_list' = rem_list
             /\ msgBox' = msgBox
             /\ callAfter' = IF pc = "notify" THEN Append(callAfter, rows[i])
                             ELSE callAfter
             /\ (dispatched' # dispatched) = (pc = "notify")
       /\ (/\ phase = "running"
           /\ phase' = "running"
           /\ \/ msgBox' # msgBox
              \/ rem_list' # rem_list
              \/ callAfter # <<>> /\ callAfter' = Tail(callAfter))
              => UNCHANGED <<pc, now, rows, i>>]_vars

\* the thread has fired a row and gone on; its event waits in the queue of
\* the UI thread, which has not shown the popup
C14_Witness ==
    /\ pc = "loop"
    /\ i > 1
    /\ i - 1 <= Len(rows)
    /\ dispatched[rows[i - 1].id] = 1
    /\ callAfter = <<rows[i - 1]>>
    /\ msgBox # "Medicine Reminder"

\* C15: the stored ids are unique and none is above the largest id ever
\* assigned (seq); the id of a row that a step adds is above every id
\* assigned before, and seq never goes down; hence a row of the thread's
\* snapshot and a stored row with the same id are the same reminder (up to
\* its notified flag), so the thread's mark never hits a reminder created
\* after the snapshot.
C15_IdsNeverReused ==
    /\ [](/\ \A r \in reminders : \A q \in reminders : r.id = q.id => r = q
          /\ \A r \in reminders : r.id <= seq
          /\ \A k \in 1..Len(rows) : \A r \in reminders :
                r.id = rows[k].id => [r EXCEPT !.notified = 0] = rows[k])
    /\ [][/\ seq' >= seq
          /\ \A r \in reminders' :
                (\A q \in reminders : q.id # r.id) => r.id > seq]_vars

\* the thread has issued its mark for a row of a snapshot taken before the
\* row was deleted, and a reminder created after the snapshot is stored,
\* unfired
C15_Witness ==
    /\ pc = "notify"
    /\ rows[i].id \notin StoredIds
    /\ \E r \in reminders :
          /\ r.notified = 0
          /\ r.id > rows[i].id
          /\ \A k \in 1..Len(rows) : rows[k].id # r.id

\* C12: while the program runs the reminder thread is alive and has a step
\* to take; a cycle that stops before the end of its loop stops in the
\* except branch (the sleep), whichever step raised; and from there, as
\* from the sleep after a completed cycle, the thread starts another cycle
\* unless the program ends.
C12_PollerResilient ==
    /\ [](phase = "running" =>
             /\ pc # "off"
             /\ ENABLED (PollNow \/ PollRead \/ PollSkip \/ PollMark
                            \/ PollNotify \/ PollSleep))
    /\ [][(/\ phase = "running"
           /\ phase' = "running"
           /\ pc \in {"read", "loop", "notify"}
           /\ pc' \notin {"read", "loop", "notify"})
              => pc' \in {"sleep", "except"}]_vars
    /\ (phase = "running" /\ pc \in {"sleep", "except"})
          ~> (pc = "read" \/ phase # "running")

\* a cycle has ended in the except branch with a due reminder left unfired:
\* the thread is alive, in its sleep
C12_Witness ==
    /\ phase = "running"
    /\ pc = "except"
    /\ DueIds(reminders, clock) # {}

\* strptime rejects the remind_datetime of the stored row r
Unparsed(r) == strptime(r.remind_datetime) = NoDate

\* C19: a stored pending row whose remind_datetime is rejected by strptime
\* is never marked and never notified and is in the pending list as long as
\* it is stored; no step of the reminder thread changes or removes it; and
\* a cycle with such a row that runs through its loop has fired every other
\* reminder that was stored unfired and due when it started and is still
\* stored.
C19_UnparsedSkipped ==
    /\ [](\A r \in reminders :
             Unparsed(r) =>
                 /\ r.notified = 0
                 /\ dispatched[r.id] = 0
                 /\ \E k \in 1..Len(get_reminders_from_db(reminders, FALSE)) :
                       get_reminders_from_db(reminders, FALSE)[k] = r)
    /\ [][PollerStep => \A r \in reminders : Unparsed(r) => r \in reminders']_vars
    /\ [][(CycleCompletes /\ \E k \in 1..Len(rows) : Unparsed(rows[k])) =>
             \A id \in cycleDue :
                 (\E r \in reminders' : r.id = id) =>
                     /\ \E r \in reminders' : r.id = id /\ r.notified = 1
                     /\ dispatched'[id] = 1]_vars

\* a cycle has run through its loop: its first row is not parsed and is
\* still pending, a due row after it has been fired
C19_Witness ==
    /\ pc = "loop"
    /\ i > Len(rows)
    /\ Len(rows) > 1
    /\ Unparsed(rows[1])
    /\ Pending(rows[1].id)
    /\ Fired(rows[2].id)
    /\ dispatched[rows[2].id] = 1

\* C20 as stated: no two stored appointments are for the same doctor on the
\* same date at the same time.
C20_NoDoubleBooking ==
    \A a \in appointments : \A b \in appointments :
        a.id # b.id =>
            ~(/\ a.doctor_id = b.doctor_id
              /\ ParseDate(a.date) = ParseDate(b.date)
              /\ ParseTime(a.time) = ParseTime(b.time))

====
